---- MODULE Spec2Model ----
(***************************************************************************)
(* ElasticDataExtractor (src/ogre/data_extractor.py): one aggregation      *)
(* query per extraction call, the backend's nested response flattened to   *)
(* one table per node and one row per 30-second window, projected onto a   *)
(* fixed set of columns.                                                   *)
(*                                                                         *)
(* Representation.  A DataFrame is a record [n, cols]: n rows and a        *)
(* sequence of columns [name, vals], so that two columns of one name are   *)
(* two elements, as in pandas.  A cell is an integer; the missing value    *)
(* (NaN, None) is the integer NaN, JSON null is the integer Null, and      *)
(* key_as_string is carried as a number (KeyText + key).  A window bucket  *)
(* of the response is held by its flattened paths: fields maps the dotted  *)
(* path of every scalar leaf to its value, buckets maps the dotted path of *)
(* every terms "buckets" list to its entries.                              *)
(***************************************************************************)
EXTENDS Integers, Sequences, FiniteSets, TLC

VARIABLES
    ext,                \* the ElasticDataExtractor object and its class attributes
    store,              \* the backend's data: node buckets with their window buckets
    pc,                 \* position of the current extraction call
    entry,              \* which entry point is running: "main", "all" or "" when idle
    date_range,         \* the call's DateRange <<start_date, end_date>>
    search_query,       \* the Search object of the call
    executions,         \* search_query.execute() calls made by the current call
    response,           \* response.aggregations.to_dict()["node"]["buckets"]
    node_i,             \* position of the for loop over the node buckets
    dict_of_dataframes, \* the mapping the loop fills
    outcome,            \* what the call handed to its caller
    error,              \* the exception that ended the call, "" when none
    prev                \* an earlier completed call (history, for comparison)

vars == <<ext, store, pc, entry, date_range, search_query, executions, response,
          node_i, dict_of_dataframes, outcome, error, prev>>

-----------------------------------------------------------------------------
(* Bounds of the model *)

MaxNodes == 2       \* node buckets in the backend's data
MaxWindows == 2     \* window buckets per node
MaxCount == 2       \* largest doc_count / value the backend reports
MaxFeatures == 1    \* non-default items of one window bucket

-----------------------------------------------------------------------------
(* Cell values *)

NaN == -1
Null == -2
KeyText == 1000
WindowSeconds == 30

Range(s) == {s[i] : i \in 1..Len(s)}

\* the sequence s with its elements computed once
Computed(s) == <<>> \o s

StartsWith(s, p) == Len(s) >= Len(p) /\ SubSeq(s, 1, Len(p)) = p

\* number + number as pandas adds two cells: a missing operand gives a missing sum
AddCell(a, b) == IF a = NaN \/ b = NaN THEN NaN ELSE a + b

-----------------------------------------------------------------------------
(* Class attributes *)

HTTP_VERBS == <<"PUT", "GET", "OPTIONS", "POST", "DELETE">>

STATS == <<"sum", "avg", "min", "max", "std_deviation">>

SERVICES ==
    << "container-server", "object-server", "proxy-server", "account-server",
       "container-auditor", "object-auditor", "container-replicator",
       "object-updater", "object-replicator", "container-sync",
       "account-auditor", "container-updater", "account-replicator" >>

\* str.lower() on the verbs it is applied to
Lower(verb) ==
    CASE verb = "PUT" -> "put"
      [] verb = "GET" -> "get"
      [] verb = "OPTIONS" -> "options"
      [] verb = "POST" -> "post"
      [] verb = "DELETE" -> "delete"
      [] OTHER -> verb

-----------------------------------------------------------------------------
(* The aggregations of a window bucket and their flattened paths *)

StatsAggs ==
    << <<"stats-of-bytes-recvd", "bytes-recvd-stats">>,
       <<"stats-of-bytes-sent", "bytes-sent-stats">>,
       <<"stats-of-request-time-put", "req-time">>,
       <<"stats-of-request-time-get", "req-time">>,
       <<"stats-of-request-time-options", "req-time">>,
       <<"stats-of-request-time-post", "req-time">>,
       <<"stats-of-request-time-delete", "req-time">> >>

SumAggs ==
    << "sum-of-replication-fail", "sum-of-replication-success",
       "sum-of-total-replicator-time-minutes" >>

bucketized_feature_names ==
    << "value-counts-of-programname", "value-counts-of-severity",
       "value-counts-of-request-method.req-count", "value-counts-of-status-int" >>

\* the aggregation (first-level name) a terms breakdown belongs to
TermsAggOf(name) ==
    IF name = "value-counts-of-request-method.req-count"
    THEN "value-counts-of-request-method" ELSE name

TermsAggs == {TermsAggOf(b) : b \in Range(bucketized_feature_names)}

AllAggs == {a[1] : a \in Range(StatsAggs)} \cup Range(SumAggs) \cup TermsAggs

\* leaves of an extended_stats result, in the backend's order
StatsLeaves == <<"count", "min", "max", "avg", "sum", "std_deviation">>

\* every scalar path a window bucket can hold, in the order the backend emits them
FieldOrder ==
    <<"key_as_string", "key", "doc_count">>
    \o <<"stats-of-bytes-recvd.doc_count">>
    \o [i \in 1..6 |-> "stats-of-bytes-recvd.bytes-recvd-stats." \o StatsLeaves[i]]
    \o <<"stats-of-bytes-sent.doc_count">>
    \o [i \in 1..6 |-> "stats-of-bytes-sent.bytes-sent-stats." \o StatsLeaves[i]]
    \o <<"value-counts-of-programname.sum_other_doc_count",
         "value-counts-of-severity.sum_other_doc_count",
         "value-counts-of-request-method.doc_count",
         "value-counts-of-request-method.req-count.sum_other_doc_count",
         "sum-of-replication-fail.value",
         "sum-of-replication-success.value",
         "sum-of-total-replicator-time-minutes.value",
         "value-counts-of-status-int.sum_other_doc_count">>
    \o <<"stats-of-request-time-put.doc_count">>
    \o [i \in 1..6 |-> "stats-of-request-time-put.req-time." \o StatsLeaves[i]]
    \o <<"stats-of-request-time-get.doc_count">>
    \o [i \in 1..6 |-> "stats-of-request-time-get.req-time." \o StatsLeaves[i]]
    \o <<"stats-of-request-time-options.doc_count">>
    \o [i \in 1..6 |-> "stats-of-request-time-options.req-time." \o StatsLeaves[i]]
    \o <<"stats-of-request-time-post.doc_count">>
    \o [i \in 1..6 |-> "stats-of-request-time-post.req-time." \o StatsLeaves[i]]
    \o <<"stats-of-request-time-delete.doc_count">>
    \o [i \in 1..6 |-> "stats-of-request-time-delete.req-time." \o StatsLeaves[i]]

\* the aggregation a scalar path belongs to ("" for the window's own fields)
AggOfPath(p) ==
    IF \E a \in AllAggs : StartsWith(p, a \o ".")
    THEN CHOOSE a \in AllAggs : StartsWith(p, a \o ".")
    ELSE ""

-----------------------------------------------------------------------------
(* The backend's data.  A window bucket is the bucket of a 30-second window   *)
(* holding one bare event, changed by a set of features, each with events of  *)
(* its own:                                                                   *)
(*   <<"term", breakdown, key, n>>   n events counted under the key           *)
(*   <<"stat", aggregation, "", 2>>  two events match the aggregation's       *)
(*                                   filter, with field values 1 and 7        *)
(*   <<"sum", aggregation, "", n>>   one event whose summed field is n        *)
(*   <<"missing", aggregation, "", 0>>  the bucket lacks the aggregation      *)
(*   <<"docs", "", "", n>>           the window holds n bare events           *)

\* keys a terms breakdown can hold, in the order the backend lists them
TermKeys(name) ==
    CASE name = "value-counts-of-programname" ->
            <<"proxy-server", "cron", "PUT", "doc_count">>
      [] name = "value-counts-of-severity" -> <<"info">>
      [] name = "value-counts-of-request-method.req-count" -> <<"PUT", "HEAD">>
      [] name = "value-counts-of-status-int" -> <<"200", "204", "412", "503">>

Features ==
    {<<"term", b, k, n>> : b \in Range(bucketized_feature_names),
                           k \in {"proxy-server", "cron", "PUT", "doc_count", "info",
                                  "HEAD", "200", "204", "412", "503"},
                           n \in 1..MaxCount}
    \cup {<<"stat", a[1], "", 2>> : a \in Range(StatsAggs)}
    \cup {<<"sum", a, "", n>> : a \in Range(SumAggs), n \in 1..MaxCount}
    \cup {<<"missing", a, "", 0>> : a \in AllAggs}
    \cup {<<"docs", "", "", n>> : n \in 2..MaxCount}

ValidFeature(f) == f[1] = "term" => f[3] \in Range(TermKeys(f[2]))

\* a set of features describes one bucket: one value per place, nothing inside
\* an aggregation the bucket lacks
ConsistentFeatures(F) ==
    /\ \A f \in F : ValidFeature(f)
    /\ \A f, g \in F : (f[1] = g[1] /\ f[2] = g[2] /\ f[3] = g[3]) => f = g
    /\ \A f, g \in F :
          g[1] = "missing" =>
              /\ f[1] \in {"stat", "sum"} => f[2] # g[2]
              /\ f[1] = "term" => TermsAggOf(f[2]) # g[2]

RECURSIVE FeatureSetsUpTo(_)
FeatureSetsUpTo(k) ==
    IF k = 0 THEN {{}}
    ELSE LET smaller == FeatureSetsUpTo(k - 1)
         IN  smaller \cup {S \cup {f} : S \in smaller, f \in Features}

FeatureSets == {F \in FeatureSetsUpTo(MaxFeatures) : ConsistentFeatures(F)}

MissingAggs(F) == {f[2] : f \in {g \in F : g[1] = "missing"}}

CountOf(F, kind, place, key) ==
    IF \E f \in F : f[1] = kind /\ f[2] = place /\ f[3] = key
    THEN (CHOOSE f \in F : f[1] = kind /\ f[2] = place /\ f[3] = key)[4]
    ELSE 0

\* an extended_stats leaf: over no event the backend reports count 0, sum 0 and
\* null for the rest; over the two events 1 and 7 it reports 2, 1, 7, 4, 8, 3
StatsLeafValue(leaf, n) ==
    IF n = 0
    THEN (IF leaf \in {"count", "sum"} THEN 0 ELSE Null)
    ELSE CASE leaf = "count" -> 2
           [] leaf = "min" -> 1
           [] leaf = "max" -> 7
           [] leaf = "avg" -> 4
           [] leaf = "sum" -> 8
           [] leaf = "std_deviation" -> 3

RECURSIVE SumCounts(_)
SumCounts(entries) ==
    IF entries = <<>> THEN 0 ELSE Head(entries).doc_count + SumCounts(Tail(entries))

\* the events a window holds: its bare events and those of its features
RECURSIVE FeatureEvents(_)
FeatureEvents(F) ==
    IF F = {} THEN 0
    ELSE LET f == CHOOSE x \in F : TRUE
         IN  (CASE f[1] = "term" -> f[4]
                [] f[1] = "stat" -> 2
                [] f[1] = "sum" -> 1
                [] OTHER -> 0) + FeatureEvents(F \ {f})

EventCount(F) ==
    (IF CountOf(F, "docs", "", "") > 0 THEN CountOf(F, "docs", "", "") ELSE 1)
        + FeatureEvents(F)

BucketEntries(F, name) ==
    LET keys == TermKeys(name)
        present == SelectSeq(keys, LAMBDA k : CountOf(F, "term", name, k) > 0)
    IN  [i \in 1..Len(present) |->
            [key |-> present[i], doc_count |-> CountOf(F, "term", name, present[i])]]

FieldValue(t, F, p) ==
    LET a == AggOfPath(p) IN
    CASE p = "key" -> WindowSeconds * t
      [] p = "key_as_string" -> KeyText + WindowSeconds * t
      [] p = "doc_count" -> EventCount(F)
      [] p = "value-counts-of-request-method.doc_count" ->
            SumCounts(BucketEntries(F, "value-counts-of-request-method.req-count"))
      [] \E s \in Range(SumAggs) : p = s \o ".value" -> CountOf(F, "sum", a, "")
      [] \E s \in Range(StatsAggs) : p = s[1] \o ".doc_count" -> CountOf(F, "stat", a, "")
      [] \E s \in Range(StatsAggs) : StartsWith(p, s[1] \o "." \o s[2] \o ".") ->
            LET leaf == CHOOSE l \in Range(StatsLeaves) :
                            \E s \in Range(StatsAggs) : p = s[1] \o "." \o s[2] \o "." \o l
            IN  StatsLeafValue(leaf, CountOf(F, "stat", a, ""))
      [] OTHER -> 0

\* the window bucket at time t described by the features F
Window(t, F) ==
    [ t |-> t,
      fields |-> [p \in {q \in Range(FieldOrder) : AggOfPath(q) \notin MissingAggs(F)}
                      |-> FieldValue(t, F, p)],
      buckets |-> [b \in {n \o ".buckets" : n \in {m \in Range(bucketized_feature_names) :
                                                    TermsAggOf(m) \notin MissingAggs(F)}}
                      |-> BucketEntries(F, CHOOSE n \in Range(bucketized_feature_names) :
                                                  b = n \o ".buckets")] ]

Digit(j) == <<"1", "2", "3", "4", "5", "6", "7", "8", "9">>[j]

NodeKey(j) == "m1-r1z1s4" \o Digit(j)

\* the function f with its values computed once
Table(f) == f @@ [x \in {} |-> 0]

\* the window buckets described by the feature sets in S, by time and description
WindowTable(S) == Table([t \in 1..MaxWindows, F \in S |-> Window(t, F)])

\* a node bucket: windows at times 1..n, window i described by fs[i]
NodeBucket(W, j, fs) ==
    [key |-> NodeKey(j),
     sliding_windows |-> [i \in 1..Len(fs) |-> W[i, fs[i]]]]

SeqsUpTo(S, lo, hi) == UNION {[1..n -> S] : n \in lo..hi}

\* data of one node whose windows range over every described bucket
DeepStores(j) ==
    LET W == WindowTable(FeatureSets)
    IN  {<<NodeBucket(W, j, fs)>> : fs \in SeqsUpTo(FeatureSets, 1, MaxWindows)}

\* data of up to MaxNodes nodes, each with a bucket for every window of the data's
\* time span; a window holds a proxy-server and a cron event or lacks a breakdown
WideShapes ==
    { {<<"term", "value-counts-of-programname", "proxy-server", 1>>,
       <<"term", "value-counts-of-programname", "cron", 1>>},
      {<<"missing", "value-counts-of-severity", "", 0>>} }

WideStores(shapes) ==
    LET W == WindowTable(shapes)
    IN  {[j \in 1..Len(ns) |-> NodeBucket(W, j, ns[j])] :
            ns \in SeqsUpTo([1..MaxWindows -> shapes], 0, MaxNodes)}

-----------------------------------------------------------------------------
(* DataFrames *)

EmptyFrame == [n |-> 0, cols |-> <<>>]

Raised == [ok |-> FALSE, df |-> EmptyFrame]

Returned(df) == [ok |-> TRUE, df |-> df]

ColumnNames(df) == [j \in 1..Len(df.cols) |-> df.cols[j].name]

\* df[name] for a name held by one column or more: the matching columns, in order
ColumnsNamed(df, name) == SelectSeq(df.cols, LAMBDA c : c.name = name)

\* df[name] = vals: every column of that name is replaced, a new name is appended
SetColumn(df, name, vals) ==
    IF \E j \in 1..Len(df.cols) : df.cols[j].name = name
    THEN [df EXCEPT !.cols = Computed([j \in 1..Len(df.cols) |->
                                IF df.cols[j].name = name
                                THEN [name |-> name, vals |-> vals]
                                ELSE df.cols[j]])]
    ELSE [df EXCEPT !.cols = Append(df.cols, [name |-> name, vals |-> vals])]

\* a JSON leaf as a cell: null is the missing value
FromJson(v) == IF v = Null THEN NaN ELSE v

\* pd.json_normalize over the window buckets: one column per scalar path some
\* window holds, missing where a window lacks the path.  (The columns holding
\* the "buckets" lists are read through BucketsColumn.)
JsonNormalize(windows) ==
    LET paths == SelectSeq(FieldOrder,
                     LAMBDA p : \E i \in 1..Len(windows) : p \in DOMAIN windows[i].fields)
    IN  [n |-> Len(windows),
         cols |-> Computed([j \in 1..Len(paths) |->
                     [name |-> paths[j],
                      vals |-> Computed([i \in 1..Len(windows) |->
                                  IF paths[j] \in DOMAIN windows[i].fields
                                  THEN FromJson(windows[i].fields[paths[j]])
                                  ELSE NaN])]])]

\* {x["key"]: x["doc_count"] for x in row}: a later entry of a key replaces an earlier
BucketsToDict(entries) ==
    [k \in {entries[i].key : i \in 1..Len(entries)} |->
        entries[CHOOSE i \in 1..Len(entries) :
                    /\ entries[i].key = k
                    /\ \A j \in (i + 1)..Len(entries) : entries[j].key # k].doc_count]

RECURSIVE KeysOfRows(_, _)
KeysOfRows(windows, path) ==
    IF windows = <<>> THEN <<>>
    ELSE LET entries == Head(windows).buckets[path]
         IN  [i \in 1..Len(entries) |-> entries[i].key] \o KeysOfRows(Tail(windows), path)

RECURSIVE FirstSeen(_, _)
FirstSeen(keys, seen) ==
    IF keys = <<>> THEN <<>>
    ELSE IF Head(keys) \in seen THEN FirstSeen(Tail(keys), seen)
         ELSE <<Head(keys)>> \o FirstSeen(Tail(keys), seen \cup {Head(keys)})

\* df[f"{name}.buckets"] turned into a frame with one column per key seen in any
\* window.  The column lookup raises when no window holds the path, iterating a
\* missing cell raises when some window lacks it.
TermsFrame(windows, name) ==
    LET path == name \o ".buckets" IN
    IF \E i \in 1..Len(windows) : path \notin DOMAIN windows[i].buckets
    THEN Raised
    ELSE LET dicts == Computed([i \in 1..Len(windows) |->
                                   BucketsToDict(windows[i].buckets[path])])
             keys == FirstSeen(KeysOfRows(windows, path), {})
         IN  Returned([n |-> Len(windows),
                       cols |-> Computed([j \in 1..Len(keys) |->
                                   [name |-> keys[j],
                                    vals |-> Computed([i \in 1..Len(windows) |->
                                                IF keys[j] \in DOMAIN dicts[i]
                                                THEN dicts[i][keys[j]] ELSE NaN])]])])

\* pd.concat(frames, axis="columns"): the columns side by side, names kept as they are
ConcatColumns(a, b) == [n |-> a.n, cols |-> a.cols \o b.cols]

\* status_code += df[column] for every column whose name starts with prefix, from a
\* series of zeros.  df[column] of a name held twice is a frame, and adding it fails.
RECURSIVE AddPrefixed(_, _, _, _)
AddPrefixed(df, prefix, j, acc) ==
    IF j > Len(df.cols) THEN acc
    ELSE IF StartsWith(df.cols[j].name, prefix)
         THEN AddPrefixed(df, prefix, j + 1,
                          Computed([i \in 1..df.n |-> AddCell(acc[i], df.cols[j].vals[i])]))
         ELSE AddPrefixed(df, prefix, j + 1, acc)

PrefixHeldTwice(df, prefix) ==
    LET prefixed == SelectSeq(df.cols, LAMBDA c : StartsWith(c.name, prefix))
    IN  \E j, k \in 1..Len(prefixed) : j # k /\ prefixed[j].name = prefixed[k].name

StatusSum(df, prefix) == AddPrefixed(df, prefix, 1, Computed([i \in 1..df.n |-> 0]))

\* selected_columns of _select_some_columns, in the order it is built
SelectedColumns(cls) ==
    << "key_as_string", "key", "doc_count",
       "sum-of-replication-success.value", "sum-of-replication-fail.value",
       "sum-of-total-replicator-time-minutes.value",
       "status-int-2XX.count", "status-int-3XX.count",
       "status-int-4XX.count", "status-int-5XX.count" >>
    \o [i \in 1..Len(cls.STATS) |-> "stats-of-bytes-recvd.bytes-recvd-stats." \o cls.STATS[i]]
    \o [i \in 1..Len(cls.STATS) |-> "stats-of-bytes-sent.bytes-sent-stats." \o cls.STATS[i]]
    \o [i \in 1..(Len(cls.HTTP_VERBS) * Len(cls.STATS)) |->
           "stats-of-request-time-"
              \o Lower(cls.HTTP_VERBS[((i - 1) \div Len(cls.STATS)) + 1])
              \o ".req-time." \o cls.STATS[((i - 1) % Len(cls.STATS)) + 1]]
    \o cls.SERVICES
    \o cls.HTTP_VERBS

RECURSIVE AppendZeros(_, _)
AppendZeros(df, names) ==
    IF names = {} THEN df
    ELSE LET name == CHOOSE x \in names : TRUE
         IN  AppendZeros(SetColumn(df, name, Computed([i \in 1..df.n |-> 0])),
                         names \ {name})

RECURSIVE TakeColumns(_, _)
TakeColumns(df, names) ==
    IF names = <<>> THEN <<>>
    ELSE ColumnsNamed(df, Head(names)) \o TakeColumns(df, Tail(names))

\* _select_some_columns: the absent selected columns are added as zeros, then
\* df[selected_columns] takes, for each selected name in turn, every column of that name
SelectSomeColumns(cls, df) ==
    LET selected_columns == SelectedColumns(cls)
        not_exist == Range(selected_columns) \ Range(ColumnNames(df))
        filled == AppendZeros(df, not_exist)
    IN  [n |-> df.n, cols |-> TakeColumns(filled, selected_columns)]

\* fillna(0)
FillNa(df) ==
    [df EXCEPT !.cols = Computed([j \in 1..Len(df.cols) |->
        [name |-> df.cols[j].name,
         vals |-> Computed([i \in 1..df.n |-> IF df.cols[j].vals[i] = NaN THEN 0
                                              ELSE df.cols[j].vals[i]])]])]

\* name_mapping of _rename_some_columns, as the set of its (old, new) items
NameMapping(cls) ==
    {<<s, s \o ".count">> : s \in Range(cls.SERVICES)}
    \cup {<<"stats-of-bytes-recvd.bytes-recvd-stats." \o st, "stats-of-bytes-recvd." \o st>> :
            st \in Range(cls.STATS)}
    \cup {<<"stats-of-bytes-sent.bytes-sent-stats." \o st, "stats-of-bytes-sent." \o st>> :
            st \in Range(cls.STATS)}
    \cup {<<"stats-of-request-time-" \o Lower(v) \o ".req-time." \o st,
            "stats-of-request-time-" \o Lower(v) \o "." \o st>> :
            v \in Range(cls.HTTP_VERBS), st \in Range(cls.STATS)}
    \cup {<<v, v \o ".count">> : v \in Range(cls.HTTP_VERBS)}

RenameColumn(mapping, name) ==
    IF \E m \in mapping : m[1] = name
    THEN (CHOOSE m \in mapping : m[1] = name)[2]
    ELSE name

\* _rename_some_columns: df.rename(columns=name_mapping)
RenameSomeColumns(cls, df) ==
    LET mapping == NameMapping(cls)
    IN  [df EXCEPT !.cols = Computed([j \in 1..Len(df.cols) |->
            [name |-> RenameColumn(mapping, df.cols[j].name), vals |-> df.cols[j].vals]])]

\* _post_process: the four status-class columns, the projection, fillna, the renaming
PostProcess(cls, df) ==
    IF \E p \in {"20", "30", "40", "50"} : PrefixHeldTwice(df, p)
    THEN Raised
    ELSE LET df2 == SetColumn(df, "status-int-2XX.count", StatusSum(df, "20"))
             df3 == SetColumn(df2, "status-int-3XX.count", StatusSum(df2, "30"))
             df4 == SetColumn(df3, "status-int-4XX.count", StatusSum(df3, "40"))
             df5 == SetColumn(df4, "status-int-5XX.count", StatusSum(df4, "50"))
         IN  Returned(RenameSomeColumns(cls, FillNa(SelectSomeColumns(cls, df5))))

\* _convert_to_df: the flattened window buckets and the four terms frames side by
\* side, then _post_process
RECURSIVE ConcatTerms(_, _, _)
ConcatTerms(windows, names, acc) ==
    IF names = <<>> THEN Returned(acc)
    ELSE LET frame == TermsFrame(windows, Head(names))
         IN  IF frame.ok
             THEN ConcatTerms(windows, Tail(names), ConcatColumns(acc, frame.df))
             ELSE Raised

ConvertToDf(cls, node, names) ==
    LET windows == node.sliding_windows
        joined == ConcatTerms(windows, names, JsonNormalize(windows))
    IN  IF joined.ok THEN PostProcess(cls, joined.df) ELSE Raised

-----------------------------------------------------------------------------
(* The extractor and its queries *)

None == "None"

\* __init__
Extractor(connection_url, index, user, password) ==
    [ user |-> user,
      password |-> password,
      connection_url |-> connection_url,
      index |-> index,
      elastic_client |-> [hosts |-> connection_url],
      HTTP_VERBS |-> HTTP_VERBS,
      STATS |-> STATS,
      SERVICES |-> SERVICES ]

EmptyMap == [k \in {} |-> EmptyFrame]

\* Search(using=self.elastic_client): no index is given, so the search names none
NewSearch(self) ==
    [using |-> self.elastic_client, index |-> <<>>, query |-> <<>>, aggs |-> EmptyMap]

MatchPhrase(field, value) == [match_phrase |-> (field :> value)]

\* the bool filter of get_extracted_features_from_all_log
AllLogFilter(dr) ==
    << [range |-> ("@timestamp" :> [gte |-> dr[1], lte |-> dr[2]])],
       [match |-> ("severity" :> "info")] >>

\* a variant of the main-log filter whose range leaves the end date out
MainLogFilterExclusive(dr) ==
    << [range |-> ("@timestamp" :> [gte |-> dr[1], lt |-> dr[2]])],
       [match |-> [severity |-> "info"]],
       [bool |-> [should |-> << MatchPhrase("programname", "object-server"),
                                MatchPhrase("programname", "container-server"),
                                MatchPhrase("programname", "account-server"),
                                MatchPhrase("programname", "proxy-server") >>,
                  minimum_should_match |-> 1]] >>

\* the bool filter of get_extracted_features_from_main_log
MainLogFilter(dr) ==
    << [range |-> ("@timestamp" :> [gte |-> dr[1], lte |-> dr[2]])],
       [match |-> ("severity" :> "info")],
       [bool |-> [should |-> << MatchPhrase("programname", "object-server"),
                                MatchPhrase("programname", "container-server"),
                                MatchPhrase("programname", "account-server"),
                                MatchPhrase("programname", "proxy-server") >>,
                  minimum_should_match |-> 1]] >>

\* a Filter aggregation over proxy-server events not sent by the internal client
ProxyFilter(extra) ==
    [bool |-> [filter |-> <<MatchPhrase("programname", "proxy-server")>> \o extra,
               must_not |-> [match |-> ("user_agent" :> "Swift")]]]

\* _generate_request_time_query: verb -> filtered extended stats of request_time
GenerateRequestTimeQuery(http_verbs) ==
    [verb \in Range(http_verbs) |->
        [filter |-> ProxyFilter(<<MatchPhrase("request_method", verb)>>),
         aggs |-> ("req-time" :> [extended_stats |-> [field |-> "request_time"]])]]

\* the metric sub-aggregations _extract_features attaches to every window
WindowMetrics(cls) ==
    LET req_time == GenerateRequestTimeQuery(cls.HTTP_VERBS)
        fixed ==
            ("stats-of-bytes-recvd" :>
                [filter |-> [bool |-> [filter |-> <<MatchPhrase("request_method", "PUT")>>]],
                 aggs |-> ("bytes-recvd-stats" :> [extended_stats |-> [field |-> "bytes_recvd"]])])
         @@ ("stats-of-bytes-sent" :>
                [filter |-> [bool |-> [filter |-> <<MatchPhrase("request_method", "GET")>>]],
                 aggs |-> ("bytes-sent-stats" :> [extended_stats |-> [field |-> "bytes_sent"]])])
         @@ ("value-counts-of-programname" :> [terms |-> [field |-> "programname.keyword"]])
         @@ ("value-counts-of-severity" :> [terms |-> [field |-> "severity.keyword"]])
         @@ ("value-counts-of-request-method" :>
                [filter |-> ProxyFilter(<<>>),
                 aggs |-> ("req-count" :> [terms |-> [field |-> "request_method.keyword"]])])
         @@ ("sum-of-replication-fail" :> [sum |-> [field |-> "ReplicationFail"]])
         @@ ("sum-of-replication-success" :> [sum |-> [field |-> "ReplicationSuccess"]])
         @@ ("sum-of-total-replicator-time-minutes" :>
                [sum |-> [field |-> "TotalReplicatorTimeMinutes"]])
         @@ ("value-counts-of-status-int" :> [terms |-> [field |-> "status_int.keyword"]])
        names == DOMAIN fixed
                 \cup {"stats-of-request-time-" \o Lower(v) : v \in DOMAIN req_time}
    IN  [name \in names |->
            IF name \in DOMAIN fixed THEN fixed[name]
            ELSE req_time[CHOOSE v \in DOMAIN req_time :
                              name = "stats-of-request-time-" \o Lower(v)]]

\* _extract_features up to execute(): the node / sliding_windows buckets and metrics
AttachAggs(cls, search) ==
    [search EXCEPT !.aggs =
        ("node" :>
            [terms |-> [field |-> "sysloghost.keyword"],
             aggs |-> ("sliding_windows" :>
                         [date_histogram |-> [field |-> "@timestamp", interval |-> "30s"],
                          aggs |-> WindowMetrics(cls)])])]

-----------------------------------------------------------------------------
(* The backend answering a query from its data: the range clause keeps the    *)
(* windows whose time lies within both bounds, the programname clause keeps   *)
(* the events of the services it names; a node left without a window has no   *)
(* bucket.                                                                    *)

RangeClauses(filter) == SelectSeq(filter, LAMBDA c : "range" \in DOMAIN c)

ProgramClauses(filter) == SelectSeq(filter, LAMBDA c : "bool" \in DOMAIN c)

InRange(filter, t) ==
    \A i \in 1..Len(RangeClauses(filter)) :
        LET r == RangeClauses(filter)[i].range["@timestamp"]
        IN  /\ ("gte" \in DOMAIN r => t >= r.gte)
            /\ ("gt" \in DOMAIN r => t > r.gt)
            /\ ("lte" \in DOMAIN r => t <= r.lte)
            /\ ("lt" \in DOMAIN r => t < r.lt)

ProgramMatches(filter, programname) ==
    \A i \in 1..Len(ProgramClauses(filter)) :
        LET should == ProgramClauses(filter)[i].bool.should
        IN  \E j \in 1..Len(should) : should[j].match_phrase["programname"] = programname

FilterWindow(filter, w) ==
    LET path == "value-counts-of-programname.buckets" IN
    IF path \in DOMAIN w.buckets
    THEN LET dropped == SelectSeq(w.buckets[path],
                                  LAMBDA e : ~ProgramMatches(filter, e.key))
         IN  [w EXCEPT !.buckets[path] =
                          SelectSeq(@, LAMBDA e : ProgramMatches(filter, e.key)),
                       !.fields["doc_count"] = @ - SumCounts(dropped)]
    ELSE w

RECURSIVE Answer(_, _)
Answer(data, search) ==
    IF data = <<>> THEN <<>>
    ELSE LET node == Head(data)
             kept == SelectSeq(node.sliding_windows,
                               LAMBDA w : InRange(search.query, w.t))
             windows == [i \in 1..Len(kept) |-> FilterWindow(search.query, kept[i])]
         IN  (IF windows = <<>> THEN <<>>
              ELSE <<[key |-> node.key, sliding_windows |-> windows]>>)
             \o Answer(Tail(data), search)

-----------------------------------------------------------------------------
(* Extraction calls *)

DateRanges == {<<1, 1>>, <<1, MaxWindows>>}

NoOutcome == [status |-> "none", tables |-> EmptyMap]

InitCall ==
    /\ pc = "idle"
    /\ entry = ""
    /\ date_range = <<0, 0>>
    /\ search_query = [using |-> [hosts |-> ""], index |-> <<>>, query |-> <<>>,
                       aggs |-> EmptyMap]
    /\ executions = 0
    /\ response = <<>>
    /\ node_i = 0
    /\ dict_of_dataframes = EmptyMap
    /\ outcome = NoOutcome
    /\ error = ""

InitExtractor ==
    /\ ext = Extractor("http://185.112.150.48:9200/", "hayoola", None, None)
    /\ prev = <<>>

Init == InitExtractor /\ InitCall /\ store \in WideStores(WideShapes)

InitFlatten == InitExtractor /\ InitCall /\ store \in DeepStores(8)

\* get_extracted_features_from_main_log up to search_query.execute()
GetExtractedFeaturesFromMainLog ==
    /\ pc = "idle"
    /\ \E dr \in DateRanges :
          /\ date_range' = dr
          /\ search_query' =
                AttachAggs(ext, [NewSearch(ext) EXCEPT !.query = MainLogFilter(dr)])
    /\ entry' = "main"
    /\ pc' = "execute"
    /\ UNCHANGED <<ext, store, executions, response, node_i, dict_of_dataframes,
                   outcome, error, prev>>

\* get_extracted_features_from_all_log up to search_query.execute()
GetExtractedFeaturesFromAllLog ==
    /\ pc = "idle"
    /\ \E dr \in DateRanges :
          /\ date_range' = dr
          /\ search_query' =
                AttachAggs(ext, [NewSearch(ext) EXCEPT !.query = AllLogFilter(dr)])
    /\ entry' = "all"
    /\ pc' = "execute"
    /\ UNCHANGED <<ext, store, executions, response, node_i, dict_of_dataframes,
                   outcome, error, prev>>

\* response = search_query.execute() answers
ExecuteReturns ==
    /\ pc = "execute"
    /\ executions' = executions + 1
    /\ response' = Answer(store, search_query)
    /\ dict_of_dataframes' = EmptyMap
    /\ node_i' = 1
    /\ pc' = "loop"
    /\ UNCHANGED <<ext, store, entry, date_range, search_query, outcome, error, prev>>

\* a variant that catches the backend's error and goes on with an empty response
ExecuteRaisesFallback ==
    /\ pc = "execute"
    /\ executions' = executions + 1
    /\ error' = "backend"
    /\ response' = <<>>
    /\ dict_of_dataframes' = EmptyMap
    /\ node_i' = 1
    /\ pc' = "loop"
    /\ UNCHANGED <<ext, store, entry, date_range, search_query, outcome, prev>>

\* search_query.execute() raises: nothing catches it
ExecuteRaises ==
    /\ pc = "execute"
    /\ executions' = executions + 1
    /\ error' = "backend"
    /\ outcome' = [status |-> "raised", tables |-> EmptyMap]
    /\ pc' = "raised"
    /\ UNCHANGED <<ext, store, entry, date_range, search_query, response, node_i,
                   dict_of_dataframes, prev>>

\* a variant of the loop's turn that takes the first service off cls.SERVICES
ConvertNodeConsuming ==
    /\ pc = "loop"
    /\ node_i <= Len(response)
    /\ ext.SERVICES # <<>>
    /\ ext' = [ext EXCEPT !.SERVICES = Tail(@)]
    /\ LET node == response[node_i]
           df == ConvertToDf(ext, node, bucketized_feature_names)
       IN  IF df.ok
           THEN /\ dict_of_dataframes' =
                      [k \in DOMAIN dict_of_dataframes \cup {node.key} |->
                          IF k = node.key THEN df.df ELSE dict_of_dataframes[k]]
                /\ node_i' = node_i + 1
                /\ UNCHANGED <<pc, outcome, error>>
           ELSE /\ error' = "flatten"
                /\ outcome' = [status |-> "raised", tables |-> EmptyMap]
                /\ pc' = "raised"
                /\ UNCHANGED <<node_i, dict_of_dataframes>>
    /\ UNCHANGED <<store, entry, date_range, search_query, executions, response, prev>>

\* one turn of the loop over the node buckets
ConvertNode ==
    /\ pc = "loop"
    /\ node_i <= Len(response)
    /\ LET node == response[node_i]
           df == ConvertToDf(ext, node, bucketized_feature_names)
       IN  IF df.ok
           THEN /\ dict_of_dataframes' =
                      [k \in DOMAIN dict_of_dataframes \cup {node.key} |->
                          IF k = node.key THEN df.df ELSE dict_of_dataframes[k]]
                /\ node_i' = node_i + 1
                /\ UNCHANGED <<pc, outcome, error>>
           ELSE /\ error' = "flatten"
                /\ outcome' = [status |-> "raised", tables |-> EmptyMap]
                /\ pc' = "raised"
                /\ UNCHANGED <<node_i, dict_of_dataframes>>
    /\ UNCHANGED <<ext, store, entry, date_range, search_query, executions, response, prev>>

\* return dict_of_dataframes
ReturnDataframes ==
    /\ pc = "loop"
    /\ node_i > Len(response)
    /\ outcome' = [status |-> "returned", tables |-> dict_of_dataframes]
    /\ pc' = "returned"
    /\ UNCHANGED <<ext, store, entry, date_range, search_query, executions, response,
                   node_i, dict_of_dataframes, error, prev>>

\* the caller has the call's outcome and is free to call again; the history
\* keeps this call or leaves what it held
CallReset ==
    /\ pc \in {"returned", "raised"}
    /\ pc' = "idle"
    /\ entry' = ""
    /\ date_range' = <<0, 0>>
    /\ search_query' = [using |-> [hosts |-> ""], index |-> <<>>, query |-> <<>>,
                        aggs |-> EmptyMap]
    /\ executions' = 0
    /\ response' = <<>>
    /\ node_i' = 0
    /\ dict_of_dataframes' = EmptyMap
    /\ outcome' = NoOutcome
    /\ error' = ""
    /\ UNCHANGED <<ext, store>>

CallEnds ==
    /\ CallReset
    /\ prev' \in {prev, <<[entry |-> entry, date_range |-> date_range,
                           search_query |-> search_query, outcome |-> outcome]>>}

CallEndsUnrecorded ==
    /\ CallReset
    /\ UNCHANGED prev

Next ==
    \/ GetExtractedFeaturesFromMainLog
    \/ GetExtractedFeaturesFromAllLog
    \/ ExecuteReturns
    \/ ExecuteRaises
    \/ ConvertNode
    \/ ReturnDataframes
    \/ CallEnds

Spec == Init /\ [][Next]_vars

\* the same calls on the data of one node, without the history
NextFlatten ==
    \/ GetExtractedFeaturesFromMainLog
    \/ GetExtractedFeaturesFromAllLog
    \/ ExecuteReturns
    \/ ExecuteRaises
    \/ ConvertNode
    \/ ReturnDataframes
    \/ CallEndsUnrecorded

SpecFlatten == InitFlatten /\ [][NextFlatten]_vars

-----------------------------------------------------------------------------
(* Reading a response and a returned table *)

\* the fixed output columns (spec 4.3)
OutputColumns ==
    { "key_as_string", "key", "doc_count",
      "sum-of-replication-success.value", "sum-of-replication-fail.value",
      "sum-of-total-replicator-time-minutes.value",
      "status-int-2XX.count", "status-int-3XX.count",
      "status-int-4XX.count", "status-int-5XX.count",
      "stats-of-bytes-recvd.sum", "stats-of-bytes-recvd.avg", "stats-of-bytes-recvd.min",
      "stats-of-bytes-recvd.max", "stats-of-bytes-recvd.std_deviation",
      "stats-of-bytes-sent.sum", "stats-of-bytes-sent.avg", "stats-of-bytes-sent.min",
      "stats-of-bytes-sent.max", "stats-of-bytes-sent.std_deviation",
      "stats-of-request-time-put.sum", "stats-of-request-time-put.avg",
      "stats-of-request-time-put.min", "stats-of-request-time-put.max",
      "stats-of-request-time-put.std_deviation",
      "stats-of-request-time-get.sum", "stats-of-request-time-get.avg",
      "stats-of-request-time-get.min", "stats-of-request-time-get.max",
      "stats-of-request-time-get.std_deviation",
      "stats-of-request-time-options.sum", "stats-of-request-time-options.avg",
      "stats-of-request-time-options.min", "stats-of-request-time-options.max",
      "stats-of-request-time-options.std_deviation",
      "stats-of-request-time-post.sum", "stats-of-request-time-post.avg",
      "stats-of-request-time-post.min", "stats-of-request-time-post.max",
      "stats-of-request-time-post.std_deviation",
      "stats-of-request-time-delete.sum", "stats-of-request-time-delete.avg",
      "stats-of-request-time-delete.min", "stats-of-request-time-delete.max",
      "stats-of-request-time-delete.std_deviation",
      "container-server.count", "object-server.count", "proxy-server.count",
      "account-server.count", "container-auditor.count", "object-auditor.count",
      "container-replicator.count", "object-updater.count", "object-replicator.count",
      "container-sync.count", "account-auditor.count", "container-updater.count",
      "account-replicator.count",
      "PUT.count", "GET.count", "OPTIONS.count", "POST.count", "DELETE.count" }

ServiceNames ==
    { "container-server", "object-server", "proxy-server", "account-server",
      "container-auditor", "object-auditor", "container-replicator", "object-updater",
      "object-replicator", "container-sync", "account-auditor", "container-updater",
      "account-replicator" }

VerbNames == {"PUT", "GET", "OPTIONS", "POST", "DELETE"}

StatNames == {"sum", "avg", "min", "max", "std_deviation"}

\* output stats column prefix -> the nested path it was flattened from
StatsSources ==
    { <<"stats-of-bytes-recvd", "stats-of-bytes-recvd.bytes-recvd-stats">>,
      <<"stats-of-bytes-sent", "stats-of-bytes-sent.bytes-sent-stats">>,
      <<"stats-of-request-time-put", "stats-of-request-time-put.req-time">>,
      <<"stats-of-request-time-get", "stats-of-request-time-get.req-time">>,
      <<"stats-of-request-time-options", "stats-of-request-time-options.req-time">>,
      <<"stats-of-request-time-post", "stats-of-request-time-post.req-time">>,
      <<"stats-of-request-time-delete", "stats-of-request-time-delete.req-time">> }

Finished == pc = "returned"

NodePositions == 1..Len(response)

WindowsOf(k) == response[k].sliding_windows

TableOf(k) == outcome.tables[response[k].key]

HasTable(k) == response[k].key \in DOMAIN outcome.tables

\* positions of the columns of df called name
Positions(df, name) == {j \in 1..Len(df.cols) : df.cols[j].name = name}

\* the cells row i holds under the name: one cell unless the name is held twice
Cells(df, name, i) == {df.cols[j].vals[i] : j \in Positions(df, name)}

\* the entries of a window's terms breakdown ({} when the window lacks it)
Entries(w, name) ==
    IF (name \o ".buckets") \in DOMAIN w.buckets
    THEN Range(w.buckets[name \o ".buckets"]) ELSE {}

KeysIn(w, name) == {e.key : e \in Entries(w, name)}

RECURSIVE SumOver(_)
SumOver(entries) ==
    IF entries = {} THEN 0
    ELSE LET e == CHOOSE x \in entries : TRUE
         IN  e.doc_count + SumOver(entries \ {e})

\* the status-code entries of a window whose code is digit xx
StatusEntries(w, digit) ==
    {e \in Entries(w, "value-counts-of-status-int") :
        Len(e.key) = 3 /\ SubSeq(e.key, 1, 1) = digit}

StatusColumns ==
    { <<"2", "status-int-2XX.count">>, <<"3", "status-int-3XX.count">>,
      <<"4", "status-int-4XX.count">>, <<"5", "status-int-5XX.count">> }

LacksAggregation(w, a) ==
    /\ \A p \in DOMAIN w.fields : ~StartsWith(p, a \o ".")
    /\ \A p \in DOMAIN w.buckets : ~StartsWith(p, a \o ".")

\* the output columns derived from an aggregation
DerivedColumns(a) ==
    CASE a = "value-counts-of-programname" -> {s \o ".count" : s \in ServiceNames}
      [] a = "value-counts-of-request-method" -> {v \o ".count" : v \in VerbNames}
      [] a = "value-counts-of-status-int" -> {c[2] : c \in StatusColumns}
      [] a = "value-counts-of-severity" -> {}
      [] a \in Range(SumAggs) -> {a \o ".value"}
      [] OTHER -> {a \o "." \o st : st \in StatNames}

-----------------------------------------------------------------------------
(* Claims *)

\* C1 (as claimed): every returned table has exactly the 63 fixed output columns,
\* each once, none missing and none extra, whatever keys the breakdowns hold.
C1_ExactColumns ==
    Finished =>
        \A k \in NodePositions :
            /\ HasTable(k)
            /\ Len(TableOf(k).cols) = 63
            /\ Range(ColumnNames(TableOf(k))) = OutputColumns
            /\ \A name \in OutputColumns : Cardinality(Positions(TableOf(k), name)) = 1

\* C2 (as claimed): in every row, each status-int-NXX.count is the sum of the
\* doc_counts of that window's status-code entries with a code in N00..N99,
\* whatever codes the other windows of the node hold.
C2_StatusClassSums ==
    Finished =>
        \A k \in NodePositions : \A i \in 1..Len(WindowsOf(k)) : \A c \in StatusColumns :
            /\ HasTable(k)
            /\ Cells(TableOf(k), c[2], i) = {SumOver(StatusEntries(WindowsOf(k)[i], c[1]))}

\* C3 (as claimed): no output cell is null/NaN, and a count or statistic column
\* whose underlying value is absent from the window's bucket (a service, verb or
\* status class with no key in its breakdown, a statistic absent or null) is 0.
C3_ZeroFill ==
    Finished =>
        \A k \in NodePositions : \A i \in 1..Len(WindowsOf(k)) :
            LET w == WindowsOf(k)[i]
                df == TableOf(k)
            IN  /\ \A j \in 1..Len(df.cols) : df.cols[j].vals[i] # NaN
                /\ \A s \in ServiceNames :
                      s \notin KeysIn(w, "value-counts-of-programname")
                          => Cells(df, s \o ".count", i) = {0}
                /\ \A v \in VerbNames :
                      v \notin KeysIn(w, "value-counts-of-request-method.req-count")
                          => Cells(df, v \o ".count", i) = {0}
                /\ \A c \in StatusColumns :
                      StatusEntries(w, c[1]) = {} => Cells(df, c[2], i) = {0}
                /\ \A src \in StatsSources : \A st \in StatNames :
                      LET p == src[2] \o "." \o st
                      IN  (p \notin DOMAIN w.fields \/ w.fields[p] = Null)
                              => Cells(df, src[1] \o "." \o st, i) = {0}

\* C4 (as claimed): when a window bucket lacks one of the named sub-aggregations
\* the call still succeeds and the columns derived from it are 0 in that row.
C4_MissingAggregationIsZero ==
    (pc \in {"returned", "raised"} /\ error # "backend") =>
        \A k \in NodePositions : \A i \in 1..Len(WindowsOf(k)) : \A a \in AllAggs :
            LacksAggregation(WindowsOf(k)[i], a) =>
                /\ pc = "returned"
                /\ \A name \in DerivedColumns(a) : Cells(TableOf(k), name, i) = {0}

\* C5 (as claimed): the mapping has one entry per node bucket, keyed by its key;
\* a node's table has one row per window bucket, in the backend's order, with the
\* window's key, key_as_string and doc_count unchanged.
C5_RowsAreWindows ==
    Finished =>
        /\ DOMAIN outcome.tables = {response[k].key : k \in NodePositions}
        /\ \A k \in NodePositions :
              /\ TableOf(k).n = Len(WindowsOf(k))
              /\ \A j \in 1..Len(TableOf(k).cols) :
                    Len(TableOf(k).cols[j].vals) = Len(WindowsOf(k))
              /\ \A i \in 1..Len(WindowsOf(k)) :
                    \A name \in {"key", "key_as_string", "doc_count"} :
                        Cells(TableOf(k), name, i) = {WindowsOf(k)[i].fields[name]}

\* C10 (as claimed): in every row a service's or verb's count is the doc_count of
\* its key in its own breakdown of that window (0 without the key), whatever keys
\* the other breakdowns hold, and a renamed stats or sum column holds the
\* non-null value of the response's nested path.
C10_ValuesPreserved ==
    Finished =>
        \A k \in NodePositions : \A i \in 1..Len(WindowsOf(k)) :
            LET w == WindowsOf(k)[i]
                df == TableOf(k)
                Own(name, key) ==
                    SumOver({e \in Entries(w, name) : e.key = key})
            IN  /\ \A s \in ServiceNames :
                      Cells(df, s \o ".count", i) = {Own("value-counts-of-programname", s)}
                /\ \A v \in VerbNames :
                      Cells(df, v \o ".count", i) =
                          {Own("value-counts-of-request-method.req-count", v)}
                /\ \A src \in StatsSources : \A st \in StatNames :
                      LET p == src[2] \o "." \o st
                      IN  (p \in DOMAIN w.fields /\ w.fields[p] # Null)
                              => Cells(df, src[1] \o "." \o st, i) = {w.fields[p]}

-----------------------------------------------------------------------------
(* Claims about the calls *)

QueryBuilt == pc # "idle"

Answered == pc \in {"loop", "returned"} \/ (pc = "raised" /\ error = "flatten")

CoreServices == {"object-server", "container-server", "account-server", "proxy-server"}

\* the stored windows of node j the date range covers, both ends included
Covered(j) ==
    SelectSeq(store[j].sliding_windows,
              LAMBDA w : date_range[1] <= w.t /\ w.t <= date_range[2])

\* the response holds, node by node and window by window, the covered windows
\* of the store, each keeping the programs the predicate accepts
AnswersCovered(accepts(_)) ==
    LET nodes == SelectSeq([j \in 1..Len(store) |-> j], LAMBDA j : Covered(j) # <<>>)
    IN  /\ Len(response) = Len(nodes)
        /\ \A k \in 1..Len(nodes) :
              /\ response[k].key = store[nodes[k]].key
              /\ Len(WindowsOf(k)) = Len(Covered(nodes[k]))
              /\ \A i \in 1..Len(WindowsOf(k)) :
                    /\ WindowsOf(k)[i].t = Covered(nodes[k])[i].t
                    /\ KeysIn(WindowsOf(k)[i], "value-counts-of-programname") =
                          {key \in KeysIn(Covered(nodes[k])[i],
                                          "value-counts-of-programname") : accepts(key)}

\* C6: the main-log filter is timestamp within [start, end] inclusive, severity
\* info and programname one of the four core services; the all-log filter is the
\* same without the programname condition; both entry points attach the same
\* bucketing and sub-aggregations, and the backend answers accordingly.
C6_Filters ==
    QueryBuilt =>
        LET q == search_query.query
            range == [range |-> ("@timestamp" :>
                                    [gte |-> date_range[1], lte |-> date_range[2]])]
            severity == [match |-> [severity |-> "info"]]
        IN  /\ entry = "all" =>
                  /\ q = <<range, severity>>
                  /\ Answered => AnswersCovered(LAMBDA key : TRUE)
            /\ entry = "main" =>
                  /\ Len(q) = 3
                  /\ q[1] = range
                  /\ q[2] = severity
                  /\ DOMAIN q[3] = {"bool"}
                  /\ DOMAIN q[3].bool = {"should", "minimum_should_match"}
                  /\ q[3].bool.minimum_should_match = 1
                  /\ Len(q[3].bool.should) = 4
                  /\ Range(q[3].bool.should) =
                        {[match_phrase |-> [programname |-> s]] : s \in CoreServices}
                  /\ Answered => AnswersCovered(LAMBDA key : key \in CoreServices)
            /\ search_query.aggs # EmptyMap
            /\ \A h \in 1..Len(prev) : prev[h].search_query.aggs = search_query.aggs

\* a main-log call, after a recorded all-log call, is answered from a store
\* with a window outside the range and loses the cron events
C6_Witness ==
    /\ pc = "returned"
    /\ entry = "main"
    /\ prev # <<>>
    /\ prev[1].entry = "all"
    /\ response # <<>>
    /\ \E j \in 1..Len(store) : Len(Covered(j)) < Len(store[j].sliding_windows)
    /\ \E j \in 1..Len(store) : \E i \in 1..Len(Covered(j)) :
          "cron" \in KeysIn(Covered(j)[i], "value-counts-of-programname")

CompleteTable(k) ==
    /\ HasTable(k)
    /\ TableOf(k).n = Len(WindowsOf(k))
    /\ OutputColumns \subseteq Range(ColumnNames(TableOf(k)))
    /\ \A j \in 1..Len(TableOf(k).cols) : Len(TableOf(k).cols[j].vals) = Len(WindowsOf(k))

\* C7: a call executes the search exactly once and ends either returning a
\* complete table for every node bucket of the response or raising with no
\* mapping; a backend failure is not retried nor replaced, and a node that fails
\* to flatten fails the call whatever the other nodes gave.
C7_AllOrNothing ==
    /\ pc \in {"idle", "execute"} => executions = 0
    /\ pc \in {"loop", "returned", "raised"} => executions = 1
    /\ pc \notin {"returned", "raised"} => (outcome = NoOutcome /\ error = "")
    /\ pc = "returned" =>
          /\ error = ""
          /\ outcome.status = "returned"
          /\ DOMAIN outcome.tables = {response[k].key : k \in NodePositions}
          /\ \A k \in NodePositions :
                /\ CompleteTable(k)
                /\ ConvertToDf(ext, response[k], bucketized_feature_names).ok
    /\ pc = "raised" =>
          /\ error \in {"backend", "flatten"}
          /\ outcome = [status |-> "raised", tables |-> EmptyMap]
          /\ error = "backend" => response = <<>>
          /\ error = "flatten" =>
                \E k \in NodePositions :
                    ~ConvertToDf(ext, response[k], bucketized_feature_names).ok

\* the second node fails to flatten after the first gave its table
C7_Witness ==
    /\ pc = "raised"
    /\ error = "flatten"
    /\ node_i = 2
    /\ DOMAIN dict_of_dataframes = {response[1].key}
    /\ outcome.tables = EmptyMap

\* C8: the extractor stays as constructed, and a call with the entry point and
\* date range of a recorded earlier call builds the same query and ends the same
\* way with identical tables.
C8_Deterministic ==
    /\ ext = Extractor("http://185.112.150.48:9200/", "hayoola", None, None)
    /\ \A h \in 1..Len(prev) :
          (prev[h].entry = entry /\ prev[h].date_range = date_range) =>
              /\ search_query = prev[h].search_query
              /\ (pc = "returned" /\ prev[h].outcome.status = "returned")
                    => outcome = prev[h].outcome
              /\ (pc = "raised" /\ error = "flatten")
                    => prev[h].outcome.status # "returned"

\* a call returns tables after a recorded call of the same entry point and range
C8_Witness ==
    /\ pc = "returned"
    /\ prev # <<>>
    /\ prev[1].entry = entry
    /\ prev[1].date_range = date_range
    /\ prev[1].outcome.status = "returned"
    /\ outcome.tables # EmptyMap

\* C9 (as claimed): the search a call executes names the constructor's index,
\* and only it, as the collection to search.
C9_IndexScoped ==
    QueryBuilt => search_query.index = <<ext.index>>

====
